---- MODULE Spec2Model ----
(***************************************************************************)
(* Model of the step sequencer of src/src/App.js (the string-defined       *)
(* multi-track component, lines 896-1763): the track definition parser,    *)
(* the note tables, playSound, the setInterval-driven scheduler            *)
(* (startPlayback / stopPlayback), the offline renderer of exportToWAV and *)
(* the handlers that call stopPlayback.                                    *)
(*                                                                         *)
(* A JavaScript string is a sequence of lexemes.  Every delimiter the code *)
(* looks at (",", " ", "=", "[", "]", "-", other white space) is a lexeme  *)
(* of its own and every other lexeme is a run of characters without        *)
(* delimiters, so split, trim, replace, startsWith and includes act on     *)
(* lexeme sequences exactly as they act on the characters.  A lexeme that  *)
(* follows "v=" is a digit or starts with a letter.  Table lookups compare *)
(* the concatenated text.                                                  *)
(*                                                                         *)
(* Gains and volumes are held in tenths (0.8 is 8), times in milliseconds. *)
(***************************************************************************)
EXTENDS Integers, Sequences, FiniteSets, TLC

VARIABLES
    trackDefinitions,   \* useState trackDefinitions: the definition string
    bpm,                \* useState bpm
    audioAvailable,     \* audioContextRef.current and the bus nodes exist
    contextState,       \* audioContextRef.current.state
    playLoopRef,        \* playLoopRef.current: interval id, 0 for null
    playIndexRef,       \* playIndexRef.current: the step index
    intervals,          \* active setInterval timers: id -> closure
    masterGain,         \* masterGainNodeRef.current.gain.value (tenths)
    feedbackGain,       \* feedbackGainRef.current.gain.value (tenths)
    delayTimeMs,        \* delayNodeRef.current.delayTime.value (ms)
    tickOut,            \* what the tick callback did, if it ran last
    exportOut,          \* what exportToWAV scheduled, if it ran last
    isExporting,        \* useState isExporting
    renderPending,      \* startRendering() promises not yet settled
    genPending,         \* generateMusic fetches not yet settled
    loadedAudioBuffer,  \* useState loadedAudioBuffer is set
    parseOut,           \* the tracks parsed, if the parser ran last
    wavOut,             \* the file audioBufferToWav made, if it ran last
    lastOp,             \* the handler that ran last and the timer it found
    renderedLoopRef,    \* playLoopRef.current as the last render read it
    grid                \* the grid sequencer of src/unnamed/part_000

vars == <<trackDefinitions, bpm, audioAvailable, contextState, playLoopRef, playIndexRef,
          intervals, masterGain, feedbackGain, delayTimeMs, tickOut,
          exportOut, isExporting, renderPending, genPending,
          loadedAudioBuffer, parseOut, wavOut, lastOp, renderedLoopRef,
          grid>>

\* the variables of the component of src/src/App.js
appVars ==
    <<trackDefinitions, bpm, audioAvailable, contextState, playLoopRef,
      playIndexRef, intervals, masterGain, feedbackGain, delayTimeMs, tickOut,
      exportOut, isExporting, renderPending, genPending, loadedAudioBuffer,
      parseOut, wavOut, lastOp, renderedLoopRef>>

(***************************************************************************)
(* Bounds                                                                  *)
(***************************************************************************)
MaxTimers == 3      \* interval ids 1..MaxTimers
MaxPending == 1     \* unsettled promises per kind
MaxSteps == 3       \* tokens per clause in the enumerated clause family
MaxFrames == 2      \* frames of the audio buffers given to the WAV encoder

(***************************************************************************)
(* Strings                                                                 *)
(***************************************************************************)
SP == " "
NL == "\n"
COMMA == ","
EQ == "="
LBR == "["
RBR == "]"
DASH == "-"
PLUS == "+"

WhiteSpace == {SP, NL}

RECURSIVE Text(_)
\* the characters of a lexeme sequence
Text(s) == IF s = <<>> THEN "" ELSE Head(s) \o Text(Tail(s))

\* a const declaration: F of the value of v, which is computed once
With(v, F(_)) == CHOOSE r \in {F(x) : x \in {v}} : TRUE

\* the positions of s, in order, that satisfy Test
Positions(s, Test(_)) == SelectSeq([i \in 1..Len(s) |-> i], Test)

\* String.prototype.split(sep) for a set of one-character separators: the
\* pieces between consecutive separator positions, empty pieces included
SplitOn(str, seps) ==
    With(str, LAMBDA s :
    With(<<0>> \o Positions(s, LAMBDA i : s[i] \in seps) \o <<Len(s) + 1>>,
         LAMBDA cut :
             [k \in 1..(Len(cut) - 1) |->
                 SubSeq(s, cut[k] + 1, cut[k + 1] - 1)]))

NonEmpty(x) == x # <<>>
NotBracket(c) == c \notin {LBR, RBR}

RECURSIVE TrimLeft(_)
TrimLeft(s) ==
    IF s # <<>> /\ Head(s) \in WhiteSpace THEN TrimLeft(Tail(s)) ELSE s

RECURSIVE TrimRight(_)
TrimRight(s) ==
    IF s # <<>> /\ s[Len(s)] \in WhiteSpace
    THEN TrimRight(SubSeq(s, 1, Len(s) - 1)) ELSE s

\* String.prototype.trim
Trim(s) == TrimRight(TrimLeft(s))

\* String.prototype.toLowerCase on one lexeme
LowerLexeme(c) ==
    CASE c = "Sol" -> "sol"
      [] c = "C4" -> "c4"
      [] c = "Kick" -> "kick"
      [] OTHER -> c

toLowerCase(s) == [i \in 1..Len(s) |-> LowerLexeme(s[i])]

\* split(/[\s,]+/): a run of separators is one separator, so of the empty
\* pieces of the one-character split only a first and a last one remain
SplitWsComma(s) ==
    With(SplitOn(s, WhiteSpace \cup {COMMA}), LAMBDA one :
    With(Positions(one, LAMBDA i : one[i] # <<>> \/ i = 1 \/ i = Len(one)),
         LAMBDA kept : [j \in 1..Len(kept) |-> one[kept[j]]]))

DigitLexemes == <<"0", "1", "2", "3", "4", "5", "6", "7", "8", "9">>
IsDigit(c) == \E i \in 1..10 : DigitLexemes[i] = c
DigitVal(c) == (CHOOSE i \in 1..10 : DigitLexemes[i] = c) - 1

RECURSIVE DigitRun(_, _, _)
\* value of the leading digits of s: [seen |-> a digit was read, val |-> n]
DigitRun(s, seen, acc) ==
    IF s # <<>> /\ IsDigit(Head(s))
    THEN DigitRun(Tail(s), TRUE, acc * 10 + DigitVal(Head(s)))
    ELSE [seen |-> seen, val |-> acc]

\* parseInt(s, 10): [nan |-> BOOLEAN, val |-> Int]
parseInt(s) ==
    LET t == TrimLeft(s)
        signed == t # <<>> /\ Head(t) \in {DASH, PLUS}
        neg == t # <<>> /\ Head(t) = DASH
        r == DigitRun(IF signed THEN Tail(t) ELSE t, FALSE, 0)
    IN  IF r.seen THEN [nan |-> FALSE, val |-> IF neg THEN 0 - r.val ELSE r.val]
        ELSE [nan |-> TRUE, val |-> 0]

(***************************************************************************)
(* Note tables                                                             *)
(***************************************************************************)
gridLength == 16

NULL == "null"
UNDEFINED == "undefined"
\* noteMapping is an object literal, so noteMapping[key] also finds the
\* members it inherits from Object.prototype; of their names only
\* "constructor" and "__proto__" are lower case, as every token is
PROTO == "Object.prototype member"

PrototypeKeys == {"constructor", "__proto__"}

Truthy(x) == x \notin {NULL, UNDEFINED}

noteMappingKeys ==
    {"do", "do4", "re", "mi", "fa", "sol", "la", "si", "do5", "re4", "mi4",
     "fa4", "sol4", "la4", "si4", "kick", "snare", "hihat", "-"}

\* noteMapping[key]
noteMapping(key) ==
    CASE key \in {"do", "do4"} -> "C4"
      [] key \in {"re", "re4"} -> "D4"
      [] key \in {"mi", "mi4"} -> "E4"
      [] key \in {"fa", "fa4"} -> "F4"
      [] key \in {"sol", "sol4"} -> "G4"
      [] key \in {"la", "la4"} -> "A4"
      [] key \in {"si", "si4"} -> "B4"
      [] key = "do5" -> "C5"
      [] key = "kick" -> "Kick"
      [] key = "snare" -> "Snare"
      [] key = "hihat" -> "Hi-Hat"
      [] key = "-" -> NULL
      [] key \in PrototypeKeys -> PROTO
      [] OTHER -> UNDEFINED

\* the keys of frequencies; frequencies[noteName] is truthy exactly on them
frequencies == {"C4", "D4", "E4", "F4", "G4", "A4", "B4", "C5"}

\* the keys of drumSounds; drumSounds[noteName] is a function exactly on them
drumSounds == {"Kick", "Snare", "Hi-Hat"}

PitchedInstruments == {"synth", "piano", "guitar", "8bit", "16bit"}

(***************************************************************************)
(* Track definition parser                                                 *)
(***************************************************************************)
startsWithV(part) == Len(part) >= 2 /\ part[1] = "v" /\ part[2] = EQ
includesEq(part) == \E i \in 1..Len(part) : part[i] = EQ

\* the C13 mutant of parsePart: the volume is kept when it is truthy
parsePart_TruthyVolume(acc, part) ==
    IF startsWithV(part)
    THEN With(parseInt(SubSeq(part, 3, Len(part))), LAMBDA vol :
             IF ~vol.nan /\ vol.val # 0 THEN [acc EXCEPT !.volume = vol.val]
             ELSE acc)
    ELSE IF includesEq(part)
         THEN With(SplitOn(part, {EQ}), LAMBDA pieces :
                  [acc EXCEPT !.instrumentType = Text(Trim(pieces[1])),
                              !.noteSequence =
                                  Trim(SelectSeq(pieces[2], NotBracket))])
         ELSE acc

\* the body of the forEach of parseSingleTrackDefinition for one part
parsePart(acc, part) ==
    IF startsWithV(part)
    THEN With(parseInt(SubSeq(part, 3, Len(part))), LAMBDA vol :
             IF ~vol.nan THEN [acc EXCEPT !.volume = vol.val] ELSE acc)
    ELSE IF includesEq(part)
         THEN With(SplitOn(part, {EQ}), LAMBDA pieces :
                  [acc EXCEPT !.instrumentType = Text(Trim(pieces[1])),
                              !.noteSequence =
                                  Trim(SelectSeq(pieces[2], NotBracket))])
         ELSE acc

RECURSIVE parseParts(_, _, _)
\* parts.forEach from part i on
parseParts(acc, parts, i) ==
    IF i > Len(parts) THEN acc
    ELSE With(parts[i], LAMBDA part :
         With(parsePart(acc, part), LAMBDA next :
              parseParts(next, parts, i + 1)))

\* parseSingleTrackDefinition(definition); volume in tenths
parseSingleTrackDefinition(definition) ==
    With(SplitOn(definition, {SP}), LAMBDA parts :
        parseParts([volume |-> 5, instrumentType |-> "synth",
                    noteSequence |-> <<>>],
                   parts, 1))

\* parseAllTrackDefinitions(definitionsString): the trimmed non-empty pieces
\* between commas
parseAllTrackDefinitions(definitionsString) ==
    With(SplitOn(definitionsString, {COMMA}), LAMBDA pieces :
        SelectSeq([i \in 1..Len(pieces) |-> Trim(pieces[i])], NonEmpty))

\* noteSequence.toLowerCase().split(/[\s,]+/).map(trim).filter(non-empty):
\* the step tokens of a track
parsedSequenceOf(noteSequence) ==
    With(SplitWsComma(toLowerCase(noteSequence)), LAMBDA pieces :
        SelectSeq([i \in 1..Len(pieces) |-> Trim(pieces[i])], NonEmpty))

Max(a, b) == CHOOSE m \in {a, b} : m >= a /\ m >= b

RECURSIVE reduceMaxLength(_, _, _)
\* parsedTracks.reduce((max, def) => Math.max(max, sequenceLength), max)
\* from track i on
reduceMaxLength(parsedTracks, i, max) ==
    IF i > Len(parsedTracks) THEN max
    ELSE With(Len(parsedSequenceOf(
                  parseSingleTrackDefinition(parsedTracks[i]).noteSequence)),
              LAMBDA sequenceLength :
         With(Max(max, sequenceLength), LAMBDA next :
              reduceMaxLength(parsedTracks, i + 1, next)))

\* the C6 mutant of maxLengthOf: the grid length whatever the tracks hold
maxLengthOf_GridOnly(parsedTracks) == gridLength

\* maxLength of the tick callback and of exportToWAV
maxLengthOf(parsedTracks) == reduceMaxLength(parsedTracks, 1, gridLength)

(***************************************************************************)
(* playSound                                                               *)
(***************************************************************************)
\* What playSound(instrumentType, noteName, ...) does on a context that
\* exists: "voice" (a source is created, started and routed), "none" (it
\* returns before creating anything) or "throw" (drumSounds[noteName] is
\* undefined and is called)
playSound(instrumentType, noteName) ==
    IF ~Truthy(noteName) THEN "none"
    ELSE IF instrumentType \in PitchedInstruments
         THEN IF noteName \in frequencies THEN "voice" ELSE "none"
         ELSE IF instrumentType = "drums"
              THEN IF noteName \in drumSounds THEN "voice" ELSE "throw"
              ELSE "none"

\* the nodes that playSound connects the last node of a voice to: on the
\* live context the master gain and a gain of 0.2 that feeds the delay
\* node, on any other context the destination of that context
voiceOutputs(live) ==
    IF live THEN {"masterGain", "delayGain"} ELSE {"destination"}

(***************************************************************************)
(* The tick callback of startPlayback                                      *)
(***************************************************************************)
\* the state a tick callback works on before its first track
TickStart(gain, feedback) ==
    [resolved |-> <<>>, voices |-> <<>>, warnings |-> <<>>, raised |-> FALSE,
     masterGain |-> gain, feedbackGain |-> feedback]

\* the C7 mutant of stepPosition: a track past its end stays on its last step
stepPosition_Clamped(index, length) ==
    IF index < length THEN index + 1 ELSE length

\* playIndexRef.current % parsedSequence.length, as a position from 1
stepPosition(index, length) == (index % length) + 1

\* the body of parsedTracks.forEach for track number i at step index
\* the rest of the body once the step's token is known
tickNote(seen, td, i, currentNote, token, mappedNote) ==
    IF Truthy(mappedNote)
    THEN With(playSound(td.instrumentType, mappedNote), LAMBDA did :
             CASE did = "voice" ->
                    [seen EXCEPT !.voices = @ \o
                        <<[track |-> i,
                           instrument |-> td.instrumentType,
                           note |-> mappedNote,
                           volume |-> td.volume,
                           outputs |-> voiceOutputs(TRUE)]>>]
               [] did = "throw" -> [seen EXCEPT !.raised = TRUE]
               [] OTHER -> seen)
    ELSE IF token = "-" THEN seen
         ELSE [seen EXCEPT !.warnings = @ \o
                   <<[track |-> i, token |-> currentNote]>>]

\* the body of parsedTracks.forEach for track number i at step index
tickTrack(acc, trackDef, i, index) ==
    With(parseSingleTrackDefinition(trackDef), LAMBDA td :
    With(parsedSequenceOf(td.noteSequence), LAMBDA parsedSequence :
    With([acc EXCEPT !.masterGain = td.volume, !.feedbackGain = 2], LAMBDA bus :
        IF Len(parsedSequence) = 0 THEN bus
        ELSE With(stepPosition(index, Len(parsedSequence)), LAMBDA pos :
             With(parsedSequence[pos], LAMBDA currentNote :
             With(Text(currentNote), LAMBDA token :
             With(noteMapping(token), LAMBDA mappedNote :
                 tickNote([bus EXCEPT !.resolved = @ \o
                              <<[track |-> i, pos |-> pos,
                                 token |-> currentNote]>>],
                          td, i, currentNote, token, mappedNote))))))))

RECURSIVE tickTracks(_, _, _, _)
\* parsedTracks.forEach from track i on; an exception ends the callback
tickTracks(acc, parsedTracks, i, index) ==
    IF i > Len(parsedTracks) \/ acc.raised THEN acc
    ELSE With(tickTrack(acc, parsedTracks[i], i, index), LAMBDA next :
             tickTracks(next, parsedTracks, i + 1, index))

\* the C15 mutant of tickCallback: the callback parses the definition string
\* as it is when the timer fires
tickCallback_LatestString(parsedTracks, index, gain, feedback) ==
    With(parseAllTrackDefinitions(trackDefinitions), LAMBDA latest :
    With(tickTracks(TickStart(gain, feedback), latest, 1, index),
         LAMBDA r :
             [index |-> index,
              resolved |-> r.resolved, voices |-> r.voices,
              warnings |-> r.warnings, raised |-> r.raised,
              masterGain |-> r.masterGain, feedbackGain |-> r.feedbackGain,
              next |-> IF r.raised THEN index
                       ELSE (index + 1) % maxLengthOf(latest)]))

\* what one run of the interval callback does at step index
tickCallback(parsedTracks, index, gain, feedback) ==
    With(tickTracks(TickStart(gain, feedback), parsedTracks, 1, index),
         LAMBDA r :
             [index |-> index,
              resolved |-> r.resolved, voices |-> r.voices,
              warnings |-> r.warnings, raised |-> r.raised,
              masterGain |-> r.masterGain, feedbackGain |-> r.feedbackGain,
              next |-> IF r.raised THEN index
                       ELSE (index + 1) % maxLengthOf(parsedTracks)])

(***************************************************************************)
(* Times                                                                   *)
(***************************************************************************)
\* a number as the ratio of two integers, so that the quotients of the code
\* are exact
Ratio(n, d) == [num |-> n, den |-> d]

\* r / k and r * k for an integer k
Over(r, k) == [num |-> r.num, den |-> r.den * k]
Times(r, k) == [num |-> r.num * k, den |-> r.den]

SameRatio(a, b) == a.num * b.den = b.num * a.den

\* the C20 mutant of intervalTime: an eighth note instead of a sixteenth
intervalTime_Eighth(b) == Over(Over(Ratio(60000, 1), b), 2)

\* intervalTime of startPlayback: 60000 / bpm / 4, in milliseconds
intervalTime(b) == Over(Over(Ratio(60000, 1), b), 4)

\* the value that delayTime holds after startPlayback assigns 60 / bpm * 0.5
\* seconds to it, in whole milliseconds: an audio parameter keeps a value
\* inside its range, which createDelay(1.0) makes 0 to 1 second
delayTimeOf(b) ==
    With(30000 \div b, LAMBDA ms :
        IF ms < 0 THEN 0 ELSE IF ms > 1000 THEN 1000 ELSE ms)

\* the onset time of exportToWAV: (60 / bpm / 4) * index, in seconds
offlineTime(b, index) == Times(Over(Over(Ratio(60, 1), b), 4), index)

(***************************************************************************)
(* The signal sources of the voices                                        *)
(***************************************************************************)
\* the source node that playSound starts for a voice: an oscillator of a
\* fixed wave form, or a buffer that a loop fills from Math.random()
voiceSource(instrumentType, noteName) ==
    CASE instrumentType \in {"synth", "piano"} -> "sine"
      [] instrumentType = "8bit" -> "square"
      [] instrumentType = "16bit" -> "triangle"
      [] instrumentType = "guitar" -> "noise"
      [] instrumentType = "drums" /\ noteName = "Kick" -> "sine"
      [] OTHER -> "noise"

\* the values that the Math.random() calls of one render can return
MathRandom == {"noise A", "noise B"}
NoNoise == "no noise"

\* the noise buffers of a render that drew random from Math.random()
noiseOf(voices, random) ==
    IF \E k \in 1..Len(voices) : voices[k].source = "noise"
    THEN random ELSE NoNoise

(***************************************************************************)
(* The scheduling loops of exportToWAV                                     *)
(***************************************************************************)
RECURSIVE offlineSteps(_, _, _, _, _)
\* parsedSequence.forEach((val, index) => ...) of exportToWAV from position
\* pos on; a voice is scheduled at onset (pos - 1) sixteenth notes
offlineSteps(acc, td, parsedSequence, i, pos) ==
    IF pos > Len(parsedSequence) \/ acc.raised THEN acc
    ELSE With(noteMapping(Text(parsedSequence[pos])), LAMBDA mappedNote :
         With(IF Truthy(mappedNote)
              THEN playSound(td.instrumentType, mappedNote) ELSE "none",
              LAMBDA did :
         With(CASE did = "voice" ->
                     [acc EXCEPT !.voices = @ \o
                         <<[track |-> i, step |-> pos - 1,
                            time |-> offlineTime(bpm, pos - 1),
                            instrument |-> td.instrumentType,
                            note |-> mappedNote,
                            source |-> voiceSource(td.instrumentType,
                                                   mappedNote),
                            volume |-> td.volume,
                            outputs |-> voiceOutputs(FALSE)]>>]
                [] did = "throw" -> [acc EXCEPT !.raised = TRUE]
                [] OTHER -> acc,
              LAMBDA next :
                  offlineSteps(next, td, parsedSequence, i, pos + 1))))

RECURSIVE offlineTracks(_, _, _)
\* parsedTracks.forEach of exportToWAV from track i on
offlineTracks(acc, parsedTracks, i) ==
    IF i > Len(parsedTracks) \/ acc.raised THEN acc
    ELSE With(parseSingleTrackDefinition(parsedTracks[i]), LAMBDA td :
         With(parsedSequenceOf(td.noteSequence), LAMBDA parsedSequence :
         With(offlineSteps(acc, td, parsedSequence, i, 1), LAMBDA next :
              offlineTracks(next, parsedTracks, i + 1))))

\* what the try block of exportToWAV schedules before startRendering
exportSchedule(parsedTracks) ==
    With(offlineTracks([voices |-> <<>>, raised |-> FALSE], parsedTracks, 1),
         LAMBDA r :
             [ran |-> TRUE, parsedTracks |-> parsedTracks,
              maxLength |-> maxLengthOf(parsedTracks),
              voices |-> r.voices, noise |-> NoNoise, raised |-> r.raised])

(***************************************************************************)
(* audioBufferToWav                                                        *)
(***************************************************************************)
\* A sample is held in thousandths (1.5 is 1500).  An audio buffer is
\* [numberOfChannels, sampleRate, length, channelData], channelData[c][i]
\* being frame i of channel c, both counted from 1.
SampleUnit == 1000

Min(a, b) == CHOOSE m \in {a, b} : m <= a /\ m <= b

\* the integer part of x / d, as the typed-array setters take it
TruncDiv(x, d) == IF x >= 0 THEN x \div d ELSE 0 - ((0 - x) \div d)

\* the C19 mutant of encodeSample: one scale for both signs
encodeSample_OneScale(x) ==
    With(Max(0 - SampleUnit, Min(SampleUnit, x)), LAMBDA sample :
        TruncDiv(sample * 32767, SampleUnit))

\* s = Math.max(-1, Math.min(1, x)); s < 0 ? s * 0x8000 : s * 0x7FFF, as
\* setInt16 stores it
encodeSample(x) ==
    With(Max(0 - SampleUnit, Min(SampleUnit, x)), LAMBDA sample :
        IF sample < 0 THEN TruncDiv(sample * 32768, SampleUnit)
        ELSE TruncDiv(sample * 32767, SampleUnit))

\* the bytes that setUint32, setUint16 and setInt16 write, little endian
Uint32(x) ==
    <<x % 256, (x \div 256) % 256, (x \div 65536) % 256,
      (x \div 16777216) % 256>>
Uint16(x) == <<x % 256, (x \div 256) % 256>>
Int16(x) == Uint16((x + 65536) % 65536)

\* the loop that fills interleaved: frame by frame, channel by channel
interleave(buffer) ==
    [j \in 1..(buffer.length * buffer.numberOfChannels) |->
        buffer.channelData[((j - 1) % buffer.numberOfChannels) + 1]
                          [((j - 1) \div buffer.numberOfChannels) + 1]]

\* the C18 mutant of wavHeader: the RIFF length counts the whole file
wavHeader_WholeFile(numChannels, sampleRate, dataLength) ==
    Uint32(1179011410) \o Uint32(44 + dataLength)
        \o Uint32(1163280727) \o Uint32(544501094) \o Uint32(16)
        \o Uint16(1) \o Uint16(numChannels) \o Uint32(sampleRate)
        \o Uint32(sampleRate * numChannels * 2) \o Uint16(numChannels * 2)
        \o Uint16(16) \o Uint32(1635017060) \o Uint32(dataLength)

\* the thirteen header writes: "RIFF", length, "WAVE", "fmt ", 16, PCM,
\* channels, sample rate, byte rate, block align, bits, "data", data length
wavHeader(numChannels, sampleRate, dataLength) ==
    Uint32(1179011410) \o Uint32(36 + dataLength)
        \o Uint32(1163280727) \o Uint32(544501094) \o Uint32(16)
        \o Uint16(1) \o Uint16(numChannels) \o Uint32(sampleRate)
        \o Uint32(sampleRate * numChannels * 2) \o Uint16(numChannels * 2)
        \o Uint16(16) \o Uint32(1635017060) \o Uint32(dataLength)

\* audioBufferToWav(buffer): the bytes of the DataView, which is allocated
\* with 44 + interleaved.length * 2 bytes and written from position 0
audioBufferToWav(buffer) ==
    With(interleave(buffer), LAMBDA interleaved :
    With(wavHeader(buffer.numberOfChannels, buffer.sampleRate,
                   Len(interleaved) * 2),
         LAMBDA header :
             [pos \in 1..(44 + Len(interleaved) * 2) |->
                 IF pos <= Len(header) THEN header[pos]
                 ELSE Int16(encodeSample(
                          interleaved[((pos - 45) \div 2) + 1]))
                          [((pos - 45) % 2) + 1]]))

\* the audio buffers of ch channels and n frames with samples from values
BuffersOf(ch, n, rate, values) ==
    {[numberOfChannels |-> ch, sampleRate |-> rate, length |-> n,
      channelData |-> data] : data \in [1..ch -> [1..n -> values]]}

SampleRates == {44100}

\* samples below -1, just below 0, between 0 and 1, and above 1
SampleValues == {0 - 1500, 0 - 1, 250, 1500}

\* the buffers the encoder is checked on: mono and stereo, no frame to
\* MaxFrames frames
WavBuffers ==
    UNION {BuffersOf(ch, n, rate, SampleValues) :
              ch \in {1, 2}, n \in 0..MaxFrames, rate \in SampleRates}

\* the buffers a render of the offline context delivers in the full
\* specification: stereo, one frame, both samples above 1
RenderedBuffers == BuffersOf(2, 1, 44100, {1500})

NoWav == [ran |-> FALSE, buffer |-> <<>>, bytes |-> <<>>]

(***************************************************************************)
(* Timers                                                                  *)
(***************************************************************************)
\* clearInterval(id): clearing null (0) or an id that is not active does
\* nothing
clearInterval(ivs, id) == [k \in DOMAIN ivs \ {id} |-> ivs[k]]

FreeIds(ivs) == (1..MaxTimers) \ DOMAIN ivs

\* the id setInterval returns: one that no active timer has
newIntervalId(ivs) == CHOOSE i \in FreeIds(ivs) : \A j \in FreeIds(ivs) : i <= j

\* the C4 mutant of stopPlayback: the step index is not reset
stopPlayback_KeepsIndex(st) ==
    [intervals |-> clearInterval(st.intervals, st.playLoopRef),
     playLoopRef |-> 0,
     playIndexRef |-> st.playIndexRef]

\* the C5 mutant of stopPlayback: the timer is not cleared
stopPlayback_KeepsTimer(st) ==
    [intervals |-> st.intervals,
     playLoopRef |-> 0,
     playIndexRef |-> 0]

\* stopPlayback() on the scheduler state [intervals, playLoopRef, playIndexRef]
stopPlayback(st) ==
    [intervals |-> clearInterval(st.intervals, st.playLoopRef),
     playLoopRef |-> 0,
     playIndexRef |-> 0]

Scheduler ==
    [intervals |-> intervals, playLoopRef |-> playLoopRef,
     playIndexRef |-> playIndexRef]

SetScheduler(st) ==
    /\ intervals' = st.intervals
    /\ playLoopRef' = st.playLoopRef
    /\ playIndexRef' = st.playIndexRef

NoIntervals == [k \in {} |-> 0]

NoTick ==
    [ran |-> FALSE, parsedTracks |-> <<>>, index |-> 0, resolved |-> <<>>,
     voices |-> <<>>, warnings |-> <<>>, raised |-> FALSE]
NoExport ==
    [ran |-> FALSE, parsedTracks |-> <<>>, maxLength |-> 0, voices |-> <<>>,
     noise |-> NoNoise, raised |-> FALSE]
NoParse == [ran |-> FALSE, tracks |-> <<>>]

\* the handler name ran, and it found the timer reference and the step index
\* as they are now; error tells whether it ended in setError with a message
Ran(name) ==
    [name |-> name, foundLoop |-> playLoopRef,
     foundStepped |-> playIndexRef # 0, error |-> FALSE]

\* the handler name ran into its catch block
Failed(name) == [Ran(name) EXCEPT !.error = TRUE]

(***************************************************************************)
(* Inputs                                                                  *)
(***************************************************************************)
RECURSIVE Join(_, _)
\* the pieces of a sequence of strings with sep between them
Join(pieces, sep) ==
    IF pieces = <<>> THEN <<>>
    ELSE IF Len(pieces) = 1 THEN Head(pieces)
         ELSE Head(pieces) \o <<sep>> \o Join(Tail(pieces), sep)

\* v=<n> [<instrument>=<t1,...,tk>]
BracketClause(n, inst, toks) ==
    <<"v", EQ>> \o n \o <<SP, LBR, inst, EQ>> \o Join(toks, COMMA) \o <<RBR>>

\* v=<n> <instrument>=<t1 t2 ... tk>, the tokens on lines of their own
PlainClause(n, inst, toks) ==
    <<"v", EQ>> \o n \o <<SP, inst, EQ>> \o Join(toks, NL)

StepTokens == {<<"sol">>, <<"kick">>, <<DASH>>, <<"xyz">>}

TokenSeqs(k) == UNION {[1..n -> StepTokens] : n \in 1..k}

RECURSIVE Repeat(_, _)
Repeat(x, n) == IF n = 0 THEN <<>> ELSE <<x>> \o Repeat(x, n - 1)

\* the two examples of the parser's contract
ExampleSynth == BracketClause(<<"8">>, "synth", << <<"sol">>, <<"sol">>, <<"mi">> >>)
ExampleDrums == BracketClause(<<"0">>, "drums", << <<"kick">>, <<DASH>>, <<"snare">> >>)

\* a pitched note on a drums track, followed by a synth track
DrumsPitched ==
    PlainClause(<<"5">>, "drums", << <<"sol">> >>) \o <<COMMA, SP>>
        \o PlainClause(<<"7">>, "synth", << <<"mi">>, <<DASH>> >>)

\* a chord token
ChordTrack ==
    PlainClause(<<"6">>, "piano",
                << <<"do4", DASH, "mi4", DASH, "sol4">>, <<DASH>>, <<"re4">> >>)

\* a track of gridLength + 1 steps beside a track of two
LongTrack ==
    PlainClause(<<"5">>, "synth", Repeat(<<"la">>, gridLength) \o << <<"si">> >>)
        \o <<COMMA, SP>>
        \o PlainClause(<<"1", "0">>, "drums", << <<"kick">>, <<"hihat">> >>)

\* a guitar track
GuitarTrack == PlainClause(<<"6">>, "guitar", << <<"sol">>, <<DASH>> >>)

\* a key that the note table inherits instead of defining
InheritedKey ==
    PlainClause(<<"5">>, "synth", << <<"constructor">>, <<"fa">> >>)
InheritedKeyDrums ==
    PlainClause(<<"5">>, "8bit", << <<"xyz">> >>) \o <<COMMA>>
        \o PlainClause(<<"5">>, "drums", << <<"__proto__">> >>)

\* upper case, a missing volume, doubled separators
Untidy ==
    <<SP, "16bit", EQ, LBR, "Sol", NL, NL, "C4", RBR, SP, SP, COMMA, COMMA,
      "v", EQ, "x", SP, "guitar", EQ, "Kick", NL, "re">>

\* a track of three steps: a note, a rest, an unknown token
ShortTrack ==
    PlainClause(<<"7">>, "synth", << <<"sol">>, <<DASH>>, <<"xyz">> >>)

\* no clause at all
Blank == <<SP, COMMA, NL, COMMA>>

\* an instrument name that playSound does not know
UnknownInstrument ==
    PlainClause(<<"5">>, "flute", << <<"sol">>, <<"mi">> >>)

\* notes without an instrument name before the "="
AbsentInstrument == <<"v", EQ, "5", SP, EQ, "sol", NL, "mi">>

\* text that is not a track clause
NotAClause == <<"hello", SP, "world">>

\* the definition strings without a track clause
NoClauseInputs == {<<>>, Blank, NotAClause}

\* volumes outside 0..10
LoudTrack == PlainClause(<<"1", "5">>, "synth", << <<"sol">> >>)
NegativeVolume == PlainClause(<<DASH, "3">>, "synth", << <<"sol">> >>)

\* the decimal digits of n, for n from 0 to 10
Digits(n) == IF n = 10 THEN <<"1", "0">> ELSE <<DigitLexemes[n + 1]>>

\* v=<text> synth=sol
VolumeClause(text) == PlainClause(text, "synth", << <<"sol">> >>)

\* a clause without a volume
NoVolumeClause == <<"synth", EQ, "sol">>

\* texts after "v=" that are integers from 0 to 10 (the second with a plus
\* sign), that start with one, and that do not
IntegerTexts == {Digits(n) : n \in 0..10}
SignedTexts == {<<PLUS>> \o Digits(n) : n \in 0..10}
IntegerLedTexts == {Digits(n) \o <<"x">> : n \in 0..10}
OtherTexts == {<<"x">>, <<"x8">>, <<>>, <<DASH>>}

VolumeFamily ==
    {VolumeClause(text) :
        text \in IntegerTexts \cup SignedTexts \cup IntegerLedTexts
                     \cup OtherTexts}
    \cup {NoVolumeClause}

Curated ==
    {ExampleSynth, ExampleDrums, DrumsPitched, ChordTrack, LongTrack,
     ShortTrack, InheritedKey, InheritedKeyDrums, Untidy, Blank, <<>>,
     UnknownInstrument, AbsentInstrument, LoudTrack, NegativeVolume,
     NotAClause, GuitarTrack}

\* every clause of at most MaxSteps tokens, in the bracketed form and in the
\* plain form
SingleClauses ==
    {PlainClause(<<"8">>, inst, t) : inst \in {"synth", "drums"},
                                    t \in TokenSeqs(MaxSteps)}
    \cup {BracketClause(<<"8">>, inst, t) : inst \in {"synth", "drums"},
                                           t \in TokenSeqs(MaxSteps)}

\* a track of one step followed by a synth track of two
TwoClauses ==
    {PlainClause(<<"8">>, i1, t1) \o <<COMMA, SP>> \o PlainClause(<<"3">>, "synth", t2) :
        i1 \in {"synth", "drums"}, t1 \in TokenSeqs(1), t2 \in [1..2 -> StepTokens]}

\* the definition strings of the session and batch specifications
DefinitionFamily ==
    Curated \cup SingleClauses \cup TwoClauses \cup VolumeFamily

\* the definition strings the user types, loads or is sent in the full
\* specification
Definitions == {ShortTrack, DrumsPitched, Blank}

BpmValues == {0, 90, 120}

\* the numbers the bpm field takes: the input has no minimum, so a negative
\* number is among them
BpmInputs == BpmValues \cup {0 - 60}

(***************************************************************************)
(* The grid sequencer (src/unnamed/part_000)                               *)
(***************************************************************************)
\* grid holds the state of that component: isAuthReady, notes (the cells
\* that are set), the refs playLoopRef and playIndexRef, the active timers
\* (each with the index and the notes its callback closes over), and what
\* the last handler did: the function handlePlay called, whether a timer
\* was active when it was called, and the notes a tick sounded.
GridInit ==
    [isAuthReady |-> FALSE, notes |-> {}, playLoopRef |-> 0,
     playIndexRef |-> 0, intervals |-> NoIntervals, called |-> "none",
     found |-> FALSE, played |-> {}]

\* the cells that are clicked
GridCells == {[x |-> 0, y |-> "C4"], [x |-> 1, y |-> "E4"]}

\* startPlayback() of the grid sequencer
gridStartPlayback(g) ==
    IF ~g.isAuthReady THEN g
    ELSE With(newIntervalId(g.intervals), LAMBDA id :
             [g EXCEPT !.playLoopRef = id,
                       !.intervals =
                           [k \in DOMAIN g.intervals \cup {id} |->
                               IF k = id THEN [index |-> 0, notes |-> g.notes]
                               ELSE g.intervals[k]]])

\* stopPlayback() of the grid sequencer: the ref keeps the id of the timer
\* it has cleared
gridStopPlayback(g) ==
    [g EXCEPT !.intervals = clearInterval(g.intervals, g.playLoopRef),
              !.playIndexRef = 0]

\* handlePlay()
handlePlay(g) ==
    IF g.playLoopRef # 0
    THEN [gridStopPlayback(g) EXCEPT !.called = "stopPlayback"]
    ELSE [gridStartPlayback(g) EXCEPT !.called = "startPlayback"]

\* a click on the play control of the grid sequencer
HandlePlay ==
    /\ FreeIds(grid.intervals) # {}
    /\ grid' = [handlePlay(grid) EXCEPT
                    !.found = DOMAIN grid.intervals # {}, !.played = {}]
    /\ UNCHANGED appVars

\* the callback of an active timer of the grid sequencer fires
GridTick(id) ==
    /\ id \in DOMAIN grid.intervals
    /\ \E index \in {grid.intervals[id].index} :
           grid' = [grid EXCEPT
                       !.played = {note \in grid.intervals[id].notes :
                                      note.x = index},
                       !.playIndexRef = index,
                       !.intervals[id].index = (index + 1) % gridLength,
                       !.called = "none", !.found = FALSE]
    /\ UNCHANGED appVars

\* handleGridClick(x, y): the cell is removed if it is set, added if not
HandleGridClick(cell) ==
    /\ grid' = [grid EXCEPT
                   !.notes = IF cell \in @ THEN @ \ {cell} ELSE @ \cup {cell},
                   !.called = "none", !.found = FALSE, !.played = {}]
    /\ UNCHANGED appVars

\* the callback of onAuthStateChanged has run to its end
GridAuthReady ==
    /\ ~grid.isAuthReady
    /\ grid' = [grid EXCEPT !.isAuthReady = TRUE, !.called = "none",
                            !.found = FALSE, !.played = {}]
    /\ UNCHANGED appVars

(***************************************************************************)
(* Initial state: the component after its first effect                     *)
(***************************************************************************)
\* the state of the AudioContext that the first effect creates: a context
\* made before the page has had a user gesture starts suspended, one made
\* after it starts running
ContextStates(available) ==
    IF available THEN {"suspended", "running"} ELSE {"none"}

InitWith(defs) ==
    /\ trackDefinitions \in defs
    /\ bpm = 120
    /\ audioAvailable \in BOOLEAN
    /\ contextState \in ContextStates(audioAvailable)
    /\ playLoopRef = 0
    /\ playIndexRef = 0
    /\ intervals = NoIntervals
    /\ masterGain = 10
    /\ feedbackGain = 4
    /\ delayTimeMs = 250
    /\ tickOut = NoTick
    /\ exportOut = NoExport
    /\ isExporting = FALSE
    /\ renderPending = 0
    /\ genPending = 0
    /\ loadedAudioBuffer = FALSE
    /\ parseOut = NoParse
    /\ wavOut = NoWav
    /\ lastOp = [name |-> "mount", foundLoop |-> 0, foundStepped |-> FALSE,
                 error |-> FALSE]
    /\ renderedLoopRef = 0
    /\ grid = GridInit

Init == InitWith(Definitions)

(***************************************************************************)
(* Handlers                                                                *)
(***************************************************************************)
Quiet ==
    /\ tickOut' = NoTick
    /\ exportOut' = NoExport
    /\ parseOut' = NoParse
    /\ wavOut' = NoWav

\* startPlayback(): stop, parse, and unless there is nothing to play or the
\* delay time cannot be set (no delay node; a bpm of 0 gives an infinite
\* value, which the assignment rejects) set the delay time and the timer
StartPlayback ==
    \E stopped \in {stopPlayback(Scheduler)},
       parsedTracks \in {parseAllTrackDefinitions(trackDefinitions)} :
        /\ FreeIds(stopped.intervals) # {}
        /\ IF parsedTracks = <<>> \/ ~audioAvailable \/ bpm = 0
           THEN /\ SetScheduler(stopped)
                /\ delayTimeMs' = delayTimeMs
           ELSE \E id \in {newIntervalId(stopped.intervals)} :
                    /\ SetScheduler(
                           [stopped EXCEPT !.playLoopRef = id,
                                      !.intervals =
                                          [k \in DOMAIN stopped.intervals \cup {id} |->
                                              IF k = id
                                              THEN [parsedTracks |-> parsedTracks,
                                                    bpm |-> bpm,
                                                    intervalTime |->
                                                        intervalTime(bpm)]
                                              ELSE stopped.intervals[k]]])
                    /\ delayTimeMs' = delayTimeOf(bpm)
        /\ lastOp' = Ran("start")
        /\ renderedLoopRef' = IF parsedTracks = <<>> THEN 0 ELSE renderedLoopRef
        /\ UNCHANGED grid
        /\ Quiet
        /\ UNCHANGED <<trackDefinitions, bpm, audioAvailable, contextState, masterGain,
                       feedbackGain, isExporting, renderPending, genPending,
                       loadedAudioBuffer>>

\* stopPlayback() called from the play/stop control
StopPlayback ==
    /\ SetScheduler(stopPlayback(Scheduler))
    /\ lastOp' = Ran("stop")
    /\ UNCHANGED renderedLoopRef
    /\ UNCHANGED grid
    /\ Quiet
    /\ UNCHANGED <<trackDefinitions, bpm, audioAvailable, contextState, masterGain,
                   feedbackGain, delayTimeMs, isExporting, renderPending,
                   genPending, loadedAudioBuffer>>

\* a click on the play/stop control: its onClick is the handler that the
\* last render chose, stopPlayback if playLoopRef.current was set then and
\* startPlayback otherwise
ClickPlayStop ==
    IF renderedLoopRef # 0 THEN StopPlayback ELSE StartPlayback

\* the callback of an active timer fires
Tick(id) ==
    /\ id \in DOMAIN intervals
    /\ \E r \in {tickCallback(intervals[id].parsedTracks, playIndexRef,
                                masterGain, feedbackGain)} :
           /\ tickOut' = [ran |-> TRUE,
                          parsedTracks |-> intervals[id].parsedTracks,
                          index |-> r.index, resolved |-> r.resolved,
                          voices |-> r.voices, warnings |-> r.warnings,
                          raised |-> r.raised]
           /\ masterGain' = r.masterGain
           /\ feedbackGain' = r.feedbackGain
           /\ playIndexRef' = r.next
    /\ lastOp' = Ran("tick")
    /\ UNCHANGED renderedLoopRef
    /\ UNCHANGED grid
    /\ exportOut' = NoExport
    /\ parseOut' = NoParse
    /\ wavOut' = NoWav
    /\ UNCHANGED <<trackDefinitions, bpm, audioAvailable, contextState, playLoopRef,
                   intervals, delayTimeMs, isExporting, renderPending,
                   genPending, loadedAudioBuffer>>

\* the textarea's onChange
EditDefinitions(text) ==
    /\ text # trackDefinitions
    /\ trackDefinitions' = text
    /\ lastOp' = Ran("edit")
    /\ renderedLoopRef' = playLoopRef
    /\ UNCHANGED grid
    /\ Quiet
    /\ UNCHANGED <<bpm, audioAvailable, contextState, playLoopRef, playIndexRef, intervals,
                   masterGain, feedbackGain, delayTimeMs, isExporting,
                   renderPending, genPending, loadedAudioBuffer>>

\* the bpm input's onChange
SetBpm(b) ==
    /\ b # bpm
    /\ bpm' = b
    /\ lastOp' = Ran("bpm")
    /\ renderedLoopRef' = playLoopRef
    /\ UNCHANGED grid
    /\ Quiet
    /\ UNCHANGED <<trackDefinitions, audioAvailable, contextState, playLoopRef, playIndexRef,
                   intervals, masterGain, feedbackGain, delayTimeMs,
                   isExporting, renderPending, genPending, loadedAudioBuffer>>

\* the onSnapshot callback of loadProject for a document that exists: a
\* missing or zero bpm is replaced by 120
ProjectSnapshot(text, b) ==
    /\ <<text, IF b = 0 THEN 120 ELSE b>> # <<trackDefinitions, bpm>>
    /\ trackDefinitions' = text
    /\ bpm' = IF b = 0 THEN 120 ELSE b
    /\ lastOp' = Ran("load")
    /\ renderedLoopRef' = playLoopRef
    /\ UNCHANGED grid
    /\ Quiet
    /\ UNCHANGED <<audioAvailable, contextState, playLoopRef, playIndexRef, intervals,
                   masterGain, feedbackGain, delayTimeMs, isExporting,
                   renderPending, genPending, loadedAudioBuffer>>

\* exportToWAV() up to startRendering(): the catch block takes an empty
\* parse, a missing audio context, a render length that is not finite and an
\* exception of playSound
ExportToWAV ==
    /\ ~isExporting
    /\ renderPending < MaxPending
    /\ SetScheduler(stopPlayback(Scheduler))
    /\ \E parsedTracks \in {parseAllTrackDefinitions(trackDefinitions)} :
           IF parsedTracks = <<>> \/ ~audioAvailable \/ bpm <= 0
           THEN /\ exportOut' = [NoExport EXCEPT !.ran = TRUE, !.raised = TRUE,
                                                 !.parsedTracks = parsedTracks]
                /\ UNCHANGED <<isExporting, renderPending>>
           ELSE \E sched \in {exportSchedule(parsedTracks)},
                   random \in MathRandom :
                    /\ exportOut' =
                           [sched EXCEPT !.noise = noiseOf(sched.voices, random)]
                    /\ isExporting' = ~sched.raised
                    /\ renderPending' = IF sched.raised THEN renderPending
                                        ELSE renderPending + 1
    /\ lastOp' = IF exportOut'.raised THEN Failed("export") ELSE Ran("export")
    /\ renderedLoopRef' = playLoopRef'
    /\ UNCHANGED grid
    /\ tickOut' = NoTick
    /\ parseOut' = NoParse
    /\ wavOut' = NoWav
    /\ UNCHANGED <<trackDefinitions, bpm, audioAvailable, contextState, masterGain,
                   feedbackGain, delayTimeMs, genPending, loadedAudioBuffer>>

\* the promise of startRendering() is fulfilled with buffer and its callback
\* runs: the buffer is encoded and offered as a download
RenderDone(buffer) ==
    /\ renderPending > 0
    /\ renderPending' = renderPending - 1
    /\ isExporting' = FALSE
    /\ wavOut' = [ran |-> TRUE, buffer |-> buffer,
                  bytes |-> audioBufferToWav(buffer)]
    /\ lastOp' = Ran("rendered")
    /\ renderedLoopRef' = playLoopRef
    /\ UNCHANGED grid
    /\ tickOut' = NoTick
    /\ parseOut' = NoParse
    /\ UNCHANGED exportOut
    /\ UNCHANGED <<trackDefinitions, bpm, audioAvailable, contextState, playLoopRef,
                   playIndexRef, intervals, masterGain, feedbackGain,
                   delayTimeMs, genPending, loadedAudioBuffer>>

\* the promise is rejected, or its callback throws before setIsExporting
RenderFail ==
    /\ renderPending > 0
    /\ renderPending' = renderPending - 1
    /\ lastOp' = Ran("render failed")
    /\ UNCHANGED renderedLoopRef
    /\ UNCHANGED grid
    /\ Quiet
    /\ UNCHANGED <<trackDefinitions, bpm, audioAvailable, contextState, playLoopRef,
                   playIndexRef, intervals, masterGain, feedbackGain,
                   delayTimeMs, isExporting, genPending, loadedAudioBuffer>>

\* generateMusic() up to the fetch
GenerateMusic ==
    /\ genPending < MaxPending
    /\ SetScheduler(stopPlayback(Scheduler))
    /\ genPending' = genPending + 1
    /\ lastOp' = Ran("generate")
    /\ renderedLoopRef' = playLoopRef'
    /\ UNCHANGED grid
    /\ Quiet
    /\ UNCHANGED <<trackDefinitions, bpm, audioAvailable, contextState, masterGain,
                   feedbackGain, delayTimeMs, isExporting, renderPending,
                   loadedAudioBuffer>>

\* the service answers with a text that is not the empty string
GenerateOk(text) ==
    /\ genPending > 0
    /\ text # <<>>
    /\ genPending' = genPending - 1
    /\ trackDefinitions' = Trim(text)
    /\ lastOp' = Ran("generated")
    /\ renderedLoopRef' = playLoopRef
    /\ UNCHANGED grid
    /\ Quiet
    /\ UNCHANGED <<bpm, audioAvailable, contextState, playLoopRef, playIndexRef, intervals,
                   masterGain, feedbackGain, delayTimeMs, isExporting,
                   renderPending, loadedAudioBuffer>>

\* the ways a call of the service ends in the catch block: fetch rejects,
\* response.ok is false, the body is no JSON, the path to the text is
\* missing, the text is the empty string, the text is no string (trim is
\* not a function)
FailedResponses ==
    {"fetch rejected", "response not ok", "body not JSON", "no text",
     "empty text", "text not a string"}

\* the C21 mutant of GenerateFail: the catch block clears the definitions
GenerateFail_ClearsTracks(response) ==
    /\ genPending > 0
    /\ response \in FailedResponses
    /\ genPending' = genPending - 1
    /\ trackDefinitions' = <<>>
    /\ lastOp' = Failed("generate failed")
    /\ renderedLoopRef' = playLoopRef
    /\ UNCHANGED grid
    /\ Quiet
    /\ UNCHANGED <<bpm, audioAvailable, contextState, playLoopRef,
                   playIndexRef, intervals, masterGain, feedbackGain,
                   delayTimeMs, isExporting, renderPending, loadedAudioBuffer>>

\* the call of the service ends in the catch block
GenerateFail(response) ==
    /\ genPending > 0
    /\ response \in FailedResponses
    /\ genPending' = genPending - 1
    /\ lastOp' = Failed("generate failed")
    /\ renderedLoopRef' = playLoopRef
    /\ UNCHANGED grid
    /\ Quiet
    /\ UNCHANGED <<trackDefinitions, bpm, audioAvailable, contextState, playLoopRef,
                   playIndexRef, intervals, masterGain, feedbackGain,
                   delayTimeMs, isExporting, renderPending, loadedAudioBuffer>>

\* handleAudioFileUpload() with a file that decodes
UploadAudio ==
    /\ audioAvailable
    /\ ~loadedAudioBuffer
    /\ loadedAudioBuffer' = TRUE
    /\ lastOp' = Ran("upload")
    /\ renderedLoopRef' = playLoopRef
    /\ UNCHANGED grid
    /\ Quiet
    /\ UNCHANGED <<trackDefinitions, bpm, audioAvailable, contextState, playLoopRef,
                   playIndexRef, intervals, masterGain, feedbackGain,
                   delayTimeMs, isExporting, renderPending, genPending>>

\* playTrimmedAudio(): the control exists once a buffer is loaded
PlayTrimmedAudio ==
    /\ loadedAudioBuffer
    /\ audioAvailable
    /\ SetScheduler(stopPlayback(Scheduler))
    /\ lastOp' = Ran("trimmed")
    /\ UNCHANGED renderedLoopRef
    /\ UNCHANGED grid
    /\ Quiet
    /\ UNCHANGED <<trackDefinitions, bpm, audioAvailable, contextState, masterGain,
                   feedbackGain, delayTimeMs, isExporting, renderPending,
                   genPending, loadedAudioBuffer>>

\* the parse that the tick callback and exportToWAV both make of the
\* definition string: the clauses, and for each its volume, instrument and
\* steps
ParsedTracksOf(definitionsString) ==
    With(parseAllTrackDefinitions(definitionsString), LAMBDA clauses :
        [i \in 1..Len(clauses) |->
            With(parseSingleTrackDefinition(clauses[i]), LAMBDA td :
                [volume |-> td.volume, instrumentType |-> td.instrumentType,
                 steps |-> parsedSequenceOf(td.noteSequence)])])

Parse ==
    /\ ~parseOut.ran
    /\ parseOut' = [ran |-> TRUE, tracks |-> ParsedTracksOf(trackDefinitions)]
    /\ lastOp' = Ran("parse")
    /\ UNCHANGED renderedLoopRef
    /\ UNCHANGED grid
    /\ tickOut' = NoTick
    /\ exportOut' = NoExport
    /\ wavOut' = NoWav
    /\ UNCHANGED <<trackDefinitions, bpm, audioAvailable, contextState, playLoopRef,
                   playIndexRef, intervals, masterGain, feedbackGain,
                   delayTimeMs, isExporting, renderPending, genPending,
                   loadedAudioBuffer>>

(***************************************************************************)
(* Specifications                                                          *)
(***************************************************************************)
\* the whole component
Next ==
    \/ StartPlayback
    \/ StopPlayback
    \/ \E id \in 1..MaxTimers : Tick(id)
    \/ \E text \in Definitions : EditDefinitions(text)
    \/ \E b \in BpmValues : SetBpm(b)
    \/ \E text \in Definitions, b \in BpmValues : ProjectSnapshot(text, b)
    \/ ExportToWAV
    \/ \E buffer \in RenderedBuffers : RenderDone(buffer)
    \/ RenderFail
    \/ GenerateMusic
    \/ \E text \in Definitions : GenerateOk(text)
    \/ \E response \in FailedResponses : GenerateFail(response)
    \/ UploadAudio
    \/ PlayTrimmedAudio

Spec == Init /\ [][Next]_vars

\* the scheduler on every definition string of the family
InitSession == InitWith(DefinitionFamily)

NextSession ==
    \/ StartPlayback
    \/ StopPlayback
    \/ \E id \in 1..MaxTimers : Tick(id)

SpecSession == InitSession /\ [][NextSession]_vars

\* the parser and the offline scheduling on every definition string of the
\* family
NextBatch ==
    \/ Parse
    \/ ExportToWAV
    \/ \E buffer \in RenderedBuffers : RenderDone(buffer)

SpecBatch == InitSession /\ [][NextBatch]_vars

\* the encoder on every buffer of WavBuffers, after an export of the guitar
\* track
InitWav == InitWith({GuitarTrack})

NextWav ==
    \/ ExportToWAV
    \/ \E buffer \in WavBuffers : RenderDone(buffer)

SpecWav == InitWav /\ [][NextWav]_vars

\* the texts the generative service answers with: a track, no clause, and
\* white space only
ServiceTexts == {ShortTrack, Blank, <<SP, NL>>}

\* the calls of the generative service during playback and editing
InitGenerate == InitWith({DrumsPitched})

NextGenerate ==
    \/ StartPlayback
    \/ \E id \in 1..MaxTimers : Tick(id)
    \/ \E text \in {DrumsPitched, ShortTrack} : EditDefinitions(text)
    \/ GenerateMusic
    \/ \E text \in ServiceTexts : GenerateOk(text)
    \/ \E response \in FailedResponses : GenerateFail(response)

SpecGenerate == InitGenerate /\ [][NextGenerate]_vars

\* the bpm edits, project loads and starts, on every number of BpmInputs
InitBpm == InitWith({ShortTrack, DrumsPitched})

NextBpm ==
    \/ StartPlayback
    \/ StopPlayback
    \/ \E b \in BpmInputs : SetBpm(b)
    \/ \E text \in Definitions, b \in BpmInputs : ProjectSnapshot(text, b)

SpecBpm == InitBpm /\ [][NextBpm]_vars

\* the exports, during playback or not, of a track and of a string without
\* clause; a promise of startRendering() that is pending is settled at some
\* time, the user's actions may stop at any time
InitExport == InitWith({ShortTrack, Blank})

RenderSettled ==
    \/ \E buffer \in RenderedBuffers : RenderDone(buffer)
    \/ RenderFail

NextExport ==
    \/ StartPlayback
    \/ \E id \in 1..MaxTimers : Tick(id)
    \/ ExportToWAV
    \/ RenderSettled

SpecExport == InitExport /\ [][NextExport]_vars /\ WF_vars(RenderSettled)

\* the play/stop control: startPlayback and stopPlayback are called by
\* clicks only, between ticks and edits of the definitions
InitControl == InitWith({ShortTrack, Blank})

NextControl ==
    \/ ClickPlayStop
    \/ \E id \in 1..MaxTimers : Tick(id)
    \/ \E text \in Definitions : EditDefinitions(text)

SpecControl == InitControl /\ [][NextControl]_vars

\* the grid sequencer
InitGrid == InitWith({ShortTrack})

NextGrid ==
    \/ GridAuthReady
    \/ HandlePlay
    \/ \E id \in 1..MaxTimers : GridTick(id)
    \/ \E cell \in GridCells : HandleGridClick(cell)

SpecGrid == InitGrid /\ [][NextGrid]_vars

(***************************************************************************)
(* Properties                                                              *)
(***************************************************************************)
\* the steps of one clause as the tick callback derives them
StepsOf(trackDef) ==
    parsedSequenceOf(parseSingleTrackDefinition(trackDef).noteSequence)

SetMax(S) == CHOOSE m \in S : \A x \in S : m >= x

\* the largest step count of the tracks, and no less than the grid length
SequenceLengthOf(parsedTracks) ==
    SetMax({gridLength} \cup
           {Len(StepsOf(parsedTracks[i])) : i \in 1..Len(parsedTracks)})

TracksWithSteps(parsedTracks) ==
    {i \in 1..Len(parsedTracks) : Len(StepsOf(parsedTracks[i])) > 0}

ResolvedTracks == {tickOut.resolved[k].track : k \in 1..Len(tickOut.resolved)}

\* the notes of the voices that the last tick created for track i, in order
VoiceNotesOf(i) ==
    LET mine == SelectSeq(tickOut.voices, LAMBDA v : v.track = i)
    IN  [k \in 1..Len(mine) |-> mine[k].note]

WarnedTracks == {tickOut.warnings[k].track : k \in 1..Len(tickOut.warnings)}

\* C1: a definition string that is the single clause
\* v=<n> [<instrument>=<t1,...,tk>] parses to exactly one track, whose volume
\* is n/10, whose instrument is the named one and whose steps are the k
\* tokens in order; so do the two examples of the contract.
C1_ClauseParsesToOneTrack ==
    parseOut.ran =>
        /\ \A inst \in {"synth", "drums"}, t \in TokenSeqs(MaxSteps) :
               trackDefinitions = BracketClause(<<"8">>, inst, t)
                   => parseOut.tracks =
                          <<[volume |-> 8, instrumentType |-> inst, steps |-> t]>>
        /\ trackDefinitions = ExampleSynth
               => parseOut.tracks =
                      <<[volume |-> 8, instrumentType |-> "synth",
                         steps |-> << <<"sol">>, <<"sol">>, <<"mi">> >>]>>
        /\ trackDefinitions = ExampleDrums
               => parseOut.tracks =
                      <<[volume |-> 0, instrumentType |-> "drums",
                         steps |-> << <<"kick">>, <<DASH>>, <<"snare">> >>]>>

\* C2: every tick of a running session ends with the step index one further,
\* modulo the sequence length, whatever the definition string holds.
C2_EveryTickAdvances ==
    tickOut.ran =>
        playIndexRef =
            (tickOut.index + 1) % SequenceLengthOf(tickOut.parsedTracks)

\* C3: resolving a step never raises: the tick runs to completion, every
\* track with steps is resolved and the step index is advanced, also when a
\* token cannot be sounded on its track's instrument.
C3_TickNeverRaises ==
    tickOut.ran =>
        /\ ~tickOut.raised
        /\ ResolvedTracks = TracksWithSteps(tickOut.parsedTracks)
        /\ playIndexRef # tickOut.index

\* C4: after stop(), from Running or from Stopped, the step index is 0, no
\* timer is referenced or active, no tick fires before the next start(), and
\* a stop() that follows a stop() changes nothing.
C4_StopResets ==
    /\ [](lastOp.name = "stop" =>
              /\ playIndexRef = 0
              /\ playLoopRef = 0
              /\ DOMAIN intervals = {})
    /\ [][/\ (DOMAIN intervals = {} /\ lastOp'.name # "start")
                 => (DOMAIN intervals' = {} /\ lastOp'.name # "tick")
          /\ (lastOp.name = "stop" /\ lastOp'.name = "stop")
                 => UNCHANGED <<trackDefinitions, bpm, audioAvailable, contextState,
                                playLoopRef, playIndexRef, intervals,
                                masterGain, feedbackGain, delayTimeMs,
                                isExporting, renderPending, genPending,
                                loadedAudioBuffer>>]_vars

\* stop() has run on a session that had ticked
C4_Witness ==
    /\ lastOp.name = "stop"
    /\ lastOp.foundLoop # 0
    /\ lastOp.foundStepped

\* C5: whatever handlers have run, at most one timer is active and it is the
\* referenced one; start() on a running session leaves exactly the new timer
\* and the step index at 0.
C5_OneTimer ==
    /\ Cardinality(DOMAIN intervals) <= 1
    /\ DOMAIN intervals \subseteq {playLoopRef}
    /\ lastOp.name = "start" => playIndexRef = 0

\* start() has run on a running session that had ticked, and a timer is set
C5_Witness ==
    /\ lastOp.name = "start"
    /\ lastOp.foundLoop # 0
    /\ lastOp.foundStepped
    /\ playLoopRef # 0
    /\ playLoopRef \in DOMAIN intervals

\* C6: the modulus that wraps the step index is the largest step count of
\* the parsed tracks, and no less than 16: a tick that advances the index
\* leaves it one further modulo that length, and the index of a session is
\* always below it.
C6_SequenceLength ==
    /\ (tickOut.ran /\ ~tickOut.raised) =>
           playIndexRef =
               (tickOut.index + 1) % SequenceLengthOf(tickOut.parsedTracks)
    /\ \A id \in DOMAIN intervals :
           playIndexRef < SequenceLengthOf(intervals[id].parsedTracks)

\* a tick has wrapped the index of a session whose longest track has more
\* steps than the grid
C6_Witness ==
    /\ tickOut.ran
    /\ tickOut.index = gridLength
    /\ playIndexRef = 0

LiveVoices(parsedTracks, i, s) ==
    LET r == tickCallback(parsedTracks, s, 0, 0)
    IN  {[instrument |-> r.voices[k].instrument, note |-> r.voices[k].note] :
            k \in {j \in 1..Len(r.voices) : r.voices[j].track = i}}

\* the voices the last export scheduled for track i at step s
OfflineVoices(i, s) ==
    {[instrument |-> exportOut.voices[k].instrument,
      note |-> exportOut.voices[k].note] :
        k \in {j \in 1..Len(exportOut.voices) :
                  exportOut.voices[j].track = i /\ exportOut.voices[j].step = s}}

\* C8: an export schedules, for every track and every step index below the
\* sequence length, a voice exactly when a live tick at that step index
\* creates one for the track, with the same instrument and note.
C8_OfflineMatchesLive ==
    (exportOut.ran /\ ~exportOut.raised) =>
        \A i \in 1..Len(exportOut.parsedTracks),
           s \in 0..(exportOut.maxLength - 1) :
            OfflineVoices(i, s) = LiveVoices(exportOut.parsedTracks, i, s)

\* the note names a token joins with the chord separator
ChordNames(token) == SplitOn(token, {DASH})

PitchedNames == noteMappingKeys \ {"kick", "snare", "hihat", "-"}

IsChord(token) ==
    /\ Len(ChordNames(token)) >= 2
    /\ \A k \in 1..Len(ChordNames(token)) :
           Text(ChordNames(token)[k]) \in PitchedNames

\* C9: the tick that resolves a token joining several note names creates one
\* voice for each of the names.
C9_ChordSoundsEveryNote ==
    tickOut.ran =>
        \A k \in 1..Len(tickOut.resolved) :
            LET r == tickOut.resolved[k]
                td == parseSingleTrackDefinition(tickOut.parsedTracks[r.track])
            IN  (IsChord(r.token) /\ td.instrumentType \in PitchedInstruments)
                    => VoiceNotesOf(r.track) =
                           [n \in 1..Len(ChordNames(r.token)) |->
                               noteMapping(Text(ChordNames(r.token)[n]))]

\* C10: a resolved token that is not in the note table creates no voice,
\* raises nothing and is reported by a warning; the token "-" creates no
\* voice and is not reported.
C10_UnknownTokenIsRest ==
    tickOut.ran =>
        \A k \in 1..Len(tickOut.resolved) :
            LET r == tickOut.resolved[k]
            IN  /\ Text(r.token) \notin noteMappingKeys =>
                       /\ VoiceNotesOf(r.track) = <<>>
                       /\ r.track \in WarnedTracks
                       /\ ~(tickOut.raised /\ k = Len(tickOut.resolved))
                /\ Text(r.token) = "-" =>
                       /\ VoiceNotesOf(r.track) = <<>>
                       /\ r.track \notin WarnedTracks

\* C11: a clause whose instrument is absent or is not a recognized name is a
\* synth track: each of its note steps is sounded, at the clause's volume,
\* with the synth voice.
C11_OtherInstrumentIsSynth ==
    (tickOut.ran /\ tickOut.parsedTracks \in
                        {<<UnknownInstrument>>, <<AbsentInstrument>>}) =>
        tickOut.voices =
            <<[track |-> 1, instrument |-> "synth",
               note |-> IF tickOut.index % 2 = 0 THEN "G4" ELSE "E4",
               volume |-> 5]>>

\* C12: every parsed track has a volume from 0 to 1 (0 to 10 tenths),
\* whatever follows "v=".
C12_VolumeInRange ==
    parseOut.ran =>
        \A i \in 1..Len(parseOut.tracks) : parseOut.tracks[i].volume \in 0..10

\* the volume of the only track parsed
OnlyVolume == parseOut.tracks[1].volume

C14_NothingToPlay ==
    (lastOp.name = "start" /\ trackDefinitions \in NoClauseInputs) =>
        /\ playLoopRef = 0
        /\ DOMAIN intervals = {}
        /\ playIndexRef = 0

\* the tracks the running session was started with
SessionTracks == intervals[playLoopRef].parsedTracks

\* C15: a session plays the tracks parsed from the definition string as it
\* was at start(): start() sets the timer on the parse of the string as it
\* is then, a user edit or a project load changes neither the timer, its
\* tracks nor the step index, and every tick resolves its tokens from the
\* tracks the timer was started with.
C15_SessionKeepsItsTracks ==
    /\ []((lastOp.name = "start" /\ playLoopRef # 0) =>
              SessionTracks = parseAllTrackDefinitions(trackDefinitions))
    /\ [](tickOut.ran =>
              /\ playLoopRef \in DOMAIN intervals
              /\ \A k \in 1..Len(tickOut.resolved) :
                     LET r == tickOut.resolved[k]
                     IN  /\ r.track \in 1..Len(SessionTracks)
                         /\ Len(StepsOf(SessionTracks[r.track])) > 0
                         /\ r.token =
                                StepsOf(SessionTracks[r.track])
                                    [(tickOut.index
                                        % Len(StepsOf(SessionTracks[r.track])))
                                     + 1])
    /\ [][lastOp'.name \in {"edit", "load"} =>
              UNCHANGED <<intervals, playLoopRef, playIndexRef>>]_vars

\* a tick has resolved a token of the session's tracks after the definition
\* string was changed to one that parses to other tracks
C15_Witness ==
    /\ tickOut.ran
    /\ tickOut.resolved # <<>>
    /\ parseAllTrackDefinitions(trackDefinitions) # tickOut.parsedTracks
    /\ parseAllTrackDefinitions(trackDefinitions) # <<>>

\* C16: start() leaves the audio context running, so no tick creates a voice
\* on a suspended context.
C16_ResumedBeforeFirstVoice ==
    /\ (lastOp.name = "start" /\ playLoopRef # 0) => contextState = "running"
    /\ (tickOut.ran /\ tickOut.voices # <<>>) => contextState = "running"

\* no track of the list is a percussion track
NoPercussion(parsedTracks) ==
    \A i \in 1..Len(parsedTracks) :
        parseSingleTrackDefinition(parsedTracks[i]).instrumentType # "drums"

\* C17: an export that follows an export of the same definition string and
\* bpm, with no percussion track, schedules the same voices with the same
\* source samples as the earlier one.
C17_RendersAgree ==
    [][(/\ lastOp'.name = "export"
        /\ exportOut.ran /\ ~exportOut.raised
        /\ exportOut'.ran /\ ~exportOut'.raised
        /\ exportOut'.parsedTracks = exportOut.parsedTracks
        /\ bpm' = bpm
        /\ NoPercussion(exportOut.parsedTracks))
           => /\ exportOut'.voices = exportOut.voices
              /\ exportOut'.noise = exportOut.noise]_vars

\* the unsigned 32-bit and the signed 16-bit number that the file holds, low
\* byte first, from byte position pos (counted from 0)
Uint32At(bytes, pos) ==
    bytes[pos + 1] + 256 * bytes[pos + 2] + 65536 * bytes[pos + 3]
        + 16777216 * bytes[pos + 4]
Int16At(bytes, pos) ==
    LET u == bytes[pos + 1] + 256 * bytes[pos + 2]
    IN  IF u >= 32768 THEN u - 65536 ELSE u

\* C18: the file made from a buffer of N frames and C channels has
\* 44 + N * C * 2 bytes, declares a data chunk of N * C * 2 bytes and a RIFF
\* length of 36 more.
C18_WavLengths ==
    wavOut.ran =>
        LET dataLength ==
                wavOut.buffer.length * wavOut.buffer.numberOfChannels * 2
        IN  /\ Len(wavOut.bytes) = 44 + dataLength
            /\ Uint32At(wavOut.bytes, 40) = dataLength
            /\ Uint32At(wavOut.bytes, 4) = 36 + dataLength
            /\ wavOut.buffer.numberOfChannels = 2 =>
                   Uint32At(wavOut.bytes, 40) = wavOut.buffer.length * 2 * 2

\* a stereo buffer of MaxFrames frames has been encoded
C18_Witness ==
    /\ wavOut.ran
    /\ wavOut.buffer.numberOfChannels = 2
    /\ wavOut.buffer.length = MaxFrames
    /\ Len(wavOut.bytes) > 44

\* the sample x clamped to [-1, 1] and scaled by scale, in thousandths
ClampedScaled(x) ==
    LET clamped == IF x < 0 - SampleUnit THEN 0 - SampleUnit
                   ELSE IF x > SampleUnit THEN SampleUnit ELSE x
    IN  IF clamped < 0 THEN clamped * 32768 ELSE clamped * 32767

\* C19: the 16-bit sample at index i * C + c of the data is the whole part
\* of frame i of channel c clamped to [-1, 1] and scaled by 32768 if
\* negative and by 32767 otherwise; it lies in -32768..32767, and is 32767
\* for 1.5 and -32768 for -1.5.
C19_SamplesInterleavedAndClamped ==
    wavOut.ran =>
        \A i \in 0..(wavOut.buffer.length - 1),
           c \in 0..(wavOut.buffer.numberOfChannels - 1) :
            LET x == wavOut.buffer.channelData[c + 1][i + 1]
                e == Int16At(wavOut.bytes,
                             44 + 2 * (i * wavOut.buffer.numberOfChannels + c))
            IN  /\ e \in (0 - 32768)..32767
                /\ e * SampleUnit - ClampedScaled(x) \in
                       (1 - SampleUnit)..(SampleUnit - 1)
                /\ ClampedScaled(x) >= 0 => e >= 0
                /\ ClampedScaled(x) <= 0 => e <= 0
                /\ x = 1500 => e = 32767
                /\ x = 0 - 1500 => e = 0 - 32768

\* a stereo buffer whose channels differ, with a sample above 1 and a sample
\* below -1, has been encoded
C19_Witness ==
    /\ wavOut.ran
    /\ wavOut.buffer.numberOfChannels = 2
    /\ wavOut.buffer.length = 2
    /\ wavOut.buffer.channelData[1] = <<1500, 0 - 1>>
    /\ wavOut.buffer.channelData[2] = <<0 - 1500, 250>>

\* C20: the period of a timer that start() set at a positive bpm is
\* 60000 / bpm / 4 milliseconds, 125 ms at bpm 120, and an export at that
\* bpm puts step number n of a track at n times 60 / bpm / 4 seconds.
C20_TickPeriod ==
    /\ \A id \in DOMAIN intervals :
           LET period == intervals[id].intervalTime
               b == intervals[id].bpm
           IN  /\ b > 0
               /\ period.num * b * 4 = 60000 * period.den
               /\ b = 120 => period.num = 125 * period.den
    /\ (exportOut.ran /\ ~exportOut.raised) =>
           \A k \in 1..Len(exportOut.voices) :
               LET v == exportOut.voices[k]
               IN  v.time.num * bpm * 4 = 60 * v.step * v.time.den

\* start() has set a timer at bpm 90
C20_Witness ==
    /\ lastOp.name = "start"
    /\ playLoopRef \in DOMAIN intervals
    /\ intervals[playLoopRef].bpm = 90
    /\ intervals[playLoopRef].intervalTime.num * 3 =
           500 * intervals[playLoopRef].intervalTime.den

\* C21: a call of the generative service that fails ends in the catch
\* block, which shows an error message and leaves the definition string as
\* it finds it.
C21_FailureKeepsDefinitions ==
    [][lastOp'.name = "generate failed" =>
           /\ lastOp'.error
           /\ trackDefinitions' = trackDefinitions]_vars

\* a call made during a running session has failed, the definitions still
\* being the ones the session was started with
C21_Witness ==
    /\ lastOp.name = "generate failed"
    /\ lastOp.error
    /\ trackDefinitions = DrumsPitched
    /\ genPending = 0

\* C22: an export that was requested while a session was running and whose
\* rendering or encoding then fails leaves the session running, with its
\* timer and its step index.
C22_FailedExportKeepsSession ==
    [][(/\ lastOp.name = "export"
        /\ lastOp.foundLoop # 0
        /\ lastOp'.name = "render failed")
           => /\ playLoopRef' = lastOp.foundLoop
              /\ lastOp.foundLoop \in DOMAIN intervals'
              /\ (playIndexRef' # 0) = lastOp.foundStepped]_vars

\* C23: playing the trimmed clip leaves the timer reference, the timers,
\* the step index and the three parameters of the effects bus as they are.
C23_TrimmedAudioLeavesScheduler ==
    [][lastOp'.name = "trimmed" =>
           UNCHANGED <<playLoopRef, intervals, playIndexRef, masterGain,
                       feedbackGain, delayTimeMs>>]_vars

\* C24: the bpm that a running session was started with is positive, and so
\* is the period of its timer.
C24_RunningBpmPositive ==
    \A id \in DOMAIN intervals :
        /\ intervals[id].bpm > 0
        /\ intervals[id].intervalTime.num * intervals[id].intervalTime.den > 0

\* C25: a run of the tick callback leaves the master gain, the feedback gain
\* and the delay time as they are.
C25_TickLeavesBus ==
    [][lastOp'.name = "tick" =>
           UNCHANGED <<masterGain, feedbackGain, delayTimeMs>>]_vars

\* C26: the bus that the first tick of a session finds is the one that the
\* first tick of a first session finds: the gains of the mount effect and
\* the delay time of the session's bpm, whatever sessions ran before.
C26_NewSessionReplacesBus ==
    [][(/\ lastOp.name = "start"
        /\ playLoopRef # 0
        /\ lastOp'.name = "tick")
           => /\ masterGain = 10
              /\ feedbackGain = 4
              /\ delayTimeMs = delayTimeOf(intervals[playLoopRef].bpm)]_vars

\* C27: every voice of a tick and every voice of an export is connected to
\* the master gain and, through the send gain, to the delay node.
C27_VoicesRouted ==
    /\ tickOut.ran =>
           \A k \in 1..Len(tickOut.voices) :
               tickOut.voices[k].outputs = {"masterGain", "delayGain"}
    /\ exportOut.ran =>
           \A k \in 1..Len(exportOut.voices) :
               exportOut.voices[k].outputs = {"masterGain", "delayGain"}

\* C28: after every call of exportToWAV there comes a state in which
\* isExporting is false, so that the export control is enabled again.
C28_ExportEnds == (lastOp.name = "export") ~> ~isExporting

\* C29: a click on the play/stop control calls stopPlayback if a timer is
\* active at that moment, and startPlayback if none is.
C29_ClickStopsRunningSession ==
    [][lastOp'.name \in {"start", "stop"} =>
           ((lastOp'.name = "stop") <=> (playLoopRef # 0))]_vars

\* C30: in the grid sequencer handlePlay calls stopPlayback only when a
\* loop is running, and a call made when no loop is running (and the
\* sign-in has finished) leaves a loop running: after start and stop, the
\* next call starts again.
C30_HandlePlayAlternates ==
    /\ grid.called = "stopPlayback" =>
           (grid.found /\ DOMAIN grid.intervals = {})
    /\ (grid.called # "none" /\ ~grid.found /\ grid.isAuthReady) =>
           DOMAIN grid.intervals # {}

====
